---- MODULE Spec2Model ----
(***************************************************************************)
(* Model of go-uml-generator: the declaration extractor, the relation      *)
(* inferencer, the PlantUML renderer and the watch loop.  The repository   *)
(* holds two programs in one file: the directory watcher (lines 1-645) and *)
(* the single-file watcher (lines 647-1307).  `variant` says which one     *)
(* runs: "dir" or "file".                                                  *)
(*                                                                         *)
(* A Go string is modelled as a sequence of tokens: an identifier is one   *)
(* token, and every piece of punctuation the code concatenates ("*", "[]", *)
(* "class ", "\n", ...) is one token.  Two Go strings are equal exactly    *)
(* when their token sequences are equal, and strings.HasPrefix and         *)
(* strings.TrimPrefix act on the leading tokens.                           *)
(***************************************************************************)
EXTENDS Integers, Sequences, FiniteSets, TLC

VARIABLES
    variant,       \* which of the two programs runs: "dir" or "file"
    structs,       \* UMLGenerator.structs
    interfaces,    \* UMLGenerator.interfaces
    relations,     \* UMLGenerator.relations
    relStage,      \* history: which stage of identifyRelations appended relations[k]
    nparsed,       \* ParseGoFile calls that returned nil on this generator
    unitsParsed,   \* history: the units those calls parsed, in call order
    output,        \* the text GeneratePlantUML returned
    pc,            \* where the program is
    tree,          \* the watched directory: path -> file
    lastModified,  \* FileWatcher.lastModified
    goFiles,       \* the list findGoFiles returned last
    edits,         \* changes the file system has made so far
    looping,       \* Watch has entered its for loop
    written,       \* the notation file in the output directory
    writtenFrom,   \* history: the units read by the pass that wrote `written`
    report         \* what the last pass or tick reported when it ended

vars == <<variant, structs, interfaces, relations, relStage, nparsed,
          unitsParsed, output,
          pc, tree, edits, lastModified, goFiles, looping, written,
          writtenFrom, report>>

genVars == <<structs, interfaces, relations, relStage, nparsed, unitsParsed,
             output>>

watchVars == <<tree, edits, lastModified, goFiles, looping, written,
               writtenFrom, report>>

(***************************************************************************)
(* Bounds.                                                                 *)
(***************************************************************************)
\* ParseGoFile calls on one generator in the generator-level specification.
MaxFiles == 2

\* Largest modification time the file system hands out.
MaxClock == 1

\* Changes the file system makes to the watched directory in one run.
MaxEdits == 2

(***************************************************************************)
(* Go strings.                                                             *)
(***************************************************************************)
HasPrefix(s, p) == Len(s) >= Len(p) /\ SubSeq(s, 1, Len(p)) = p

TrimPrefix(s, p) == IF HasPrefix(s, p) THEN SubSeq(s, Len(p) + 1, Len(s)) ELSE s

RECURSIVE Join(_, _)
Join(elems, sep) ==
    IF Len(elems) = 0 THEN <<>>
    ELSE IF Len(elems) = 1 THEN elems[1]
    ELSE elems[1] \o sep \o Join(Tail(elems), sep)

RECURSIVE Flatten(_)
Flatten(ss) == IF Len(ss) = 0 THEN <<>> ELSE Head(ss) \o Flatten(Tail(ss))

\* All orders in which a `range` over a Go map with key set K can visit it.
RECURSIVE Orders(_)
Orders(K) ==
    IF K = {} THEN {<<>>}
    ELSE UNION {{<<k>> \o o : o \in Orders(K \ {k})} : k \in K}

(***************************************************************************)
(* Syntax trees, as go/parser hands them to the program.                   *)
(***************************************************************************)
Ident(n) == [node |-> "Ident", Name |-> <<n>>]

StarExpr(x) == [node |-> "StarExpr", X |-> x]

ArrayType(hasLen, elt) == [node |-> "ArrayType", HasLen |-> hasLen, Elt |-> elt]

SelectorExpr(x, sel) == [node |-> "SelectorExpr", X |-> x, Sel |-> <<sel>>]

MapType(k, v) == [node |-> "MapType", Key |-> k, Value |-> v]

ChanType(dir, v) == [node |-> "ChanType", Dir |-> dir, Value |-> v]

Ellipsis(elt) == [node |-> "Ellipsis", Elt |-> elt]

Field(names, type) == [Names |-> names, Type |-> type]

FuncType(params, results) ==
    [node |-> "FuncType", Params |-> params, Results |-> results]

StructType(fields) == [node |-> "StructType", Fields |-> fields]

InterfaceType(methods) == [node |-> "InterfaceType", Methods |-> methods]

TypeSpec(name, type) == [Name |-> <<name>>, Type |-> type]

GenDecl(tok, specs) == [decl |-> "GenDecl", Tok |-> tok, Specs |-> specs]

\* recv is the receiver list; recvNil says that the declaration has none.
FuncDecl(recvNil, recv, name, type) ==
    [decl |-> "FuncDecl", RecvNil |-> recvNil, Recv |-> recv,
     Name |-> <<name>>, Type |-> type]

(***************************************************************************)
(* getTypeString, directory variant.                                       *)
(***************************************************************************)
RECURSIVE getTypeString(_)
getTypeString(t) ==
    CASE t.node = "Ident" -> t.Name
      [] t.node = "StarExpr" -> <<"*">> \o getTypeString(t.X)
      [] t.node = "SelectorExpr" -> getTypeString(t.X) \o <<".">> \o t.Sel
      [] t.node = "ArrayType" ->
            IF ~t.HasLen THEN <<"[]">> \o getTypeString(t.Elt)
            ELSE <<"[n]">> \o getTypeString(t.Elt)
      [] t.node = "MapType" ->
            <<"map[">> \o getTypeString(t.Key) \o <<"]">> \o getTypeString(t.Value)
      [] t.node = "InterfaceType" -> <<"interface{}">>
      [] t.node = "ChanType" ->
            (CASE t.Dir = "SEND" -> <<"chan<- ">> \o getTypeString(t.Value)
               [] t.Dir = "RECV" -> <<"<-chan ">> \o getTypeString(t.Value)
               [] OTHER -> <<"chan ">> \o getTypeString(t.Value))
      [] t.node = "FuncType" -> <<"func">>
      [] t.node = "StructType" -> <<"struct">>
      [] t.node = "Ellipsis" -> <<"...">> \o getTypeString(t.Elt)
      [] OTHER -> <<"unknown">>

(***************************************************************************)
(* getTypeString, single-file variant.                                     *)
(***************************************************************************)
RECURSIVE getTypeStringFile(_)
getTypeStringFile(t) ==
    CASE t.node = "Ident" -> t.Name
      [] t.node = "SelectorExpr" ->
            IF t.X.node = "Ident" THEN t.X.Name \o <<".">> \o t.Sel
            ELSE <<"unknown">>
      [] t.node = "StarExpr" -> <<"*">> \o getTypeStringFile(t.X)
      [] t.node = "ArrayType" -> <<"[]">> \o getTypeStringFile(t.Elt)
      [] t.node = "MapType" ->
            <<"map[">> \o getTypeStringFile(t.Key) \o <<"]">>
                \o getTypeStringFile(t.Value)
      [] t.node = "InterfaceType" -> <<"interface{}">>
      [] OTHER -> <<"unknown">>

TypeString(v, t) == IF v = "dir" THEN getTypeString(t) ELSE getTypeStringFile(t)

(***************************************************************************)
(* The registry: structs and interfaces are Go maps from a type name to    *)
(* its record.                                                             *)
(***************************************************************************)
MapPut(m, k, val) == [x \in (DOMAIN m) \cup {k} |-> IF x = k THEN val ELSE m[x]]

EmptyMap == [x \in {} |-> {}]

FieldInfo(name, type) == [Name |-> name, Type |-> type]

ParameterInfo(name, type) == [Name |-> name, Type |-> type]

Relation(from, to, type, card) ==
    [From |-> from, To |-> to, Type |-> type, Cardinality |-> card]

\* One list entry `a, b T` gives one record per name, an unnamed one gives a
\* record with the empty name.
RECURSIVE ParamsOf(_, _)
ParamsOf(v, list) ==
    IF Len(list) = 0 THEN <<>>
    ELSE LET param == Head(list)
             paramType == TypeString(v, param.Type)
         IN (IF Len(param.Names) > 0
             THEN [i \in 1..Len(param.Names) |->
                      ParameterInfo(param.Names[i], paramType)]
             ELSE <<ParameterInfo(<<>>, paramType)>>)
            \o ParamsOf(v, Tail(list))

ReturnTypeOf(v, results) ==
    Join([i \in 1..Len(results) |-> TypeString(v, results[i].Type)], <<", ">>)

\* The MethodInfo both processTypeSpec and processMethod build from a name and
\* a function type.
NewMethodInfo(v, methodName, funcType) ==
    [Name |-> methodName,
     Parameters |-> ParamsOf(v, funcType.Params),
     ReturnType |-> ReturnTypeOf(v, funcType.Results)]

RECURSIVE StructFields(_, _)
StructFields(v, list) ==
    IF Len(list) = 0 THEN <<>>
    ELSE LET field == Head(list)
             fieldType == TypeString(v, field.Type)
         IN (IF Len(field.Names) > 0
             THEN [i \in 1..Len(field.Names) |->
                      FieldInfo(field.Names[i], fieldType)]
             ELSE <<FieldInfo(fieldType, fieldType)>>)
            \o StructFields(v, Tail(list))

RECURSIVE InterfaceMethods(_, _)
InterfaceMethods(v, list) ==
    IF Len(list) = 0 THEN <<>>
    ELSE LET method == Head(list)
         IN (IF Len(method.Names) > 0 /\ method.Type.node = "FuncType"
             THEN <<NewMethodInfo(v, method.Names[1], method.Type)>>
             ELSE <<>>)
            \o InterfaceMethods(v, Tail(list))

\* processTypeSpec with a fault seeded: a struct name that is registered
\* already keeps its first record.
processTypeSpecKeepsFirst(v, reg, typeSpec) ==
    LET typeName == typeSpec.Name IN
    IF typeSpec.Type.node = "StructType"
    THEN IF typeName \in DOMAIN reg.structs THEN reg
         ELSE [reg EXCEPT !.structs =
                 MapPut(@, typeName,
                        [Name |-> typeName,
                         Fields |-> StructFields(v, typeSpec.Type.Fields),
                         Methods |-> <<>>])]
    ELSE IF typeSpec.Type.node = "InterfaceType"
    THEN [reg EXCEPT !.interfaces =
            MapPut(@, typeName,
                   [Name |-> typeName,
                    Methods |-> InterfaceMethods(v, typeSpec.Type.Methods)])]
    ELSE reg

\* reg is [structs, interfaces]; the result is the registry after the call.
processTypeSpec(v, reg, typeSpec) ==
    LET typeName == typeSpec.Name IN
    IF typeSpec.Type.node = "StructType"
    THEN [reg EXCEPT !.structs =
            MapPut(@, typeName,
                   [Name |-> typeName,
                    Fields |-> StructFields(v, typeSpec.Type.Fields),
                    Methods |-> <<>>])]
    ELSE IF typeSpec.Type.node = "InterfaceType"
    THEN [reg EXCEPT !.interfaces =
            MapPut(@, typeName,
                   [Name |-> typeName,
                    Methods |-> InterfaceMethods(v, typeSpec.Type.Methods)])]
    ELSE reg

\* processMethod with a fault seeded: a method whose owner is not registered
\* registers the owner.
processMethodRegistersOwner(v, reg, funcDecl) ==
    IF funcDecl.RecvNil \/ Len(funcDecl.Recv) = 0 THEN reg
    ELSE LET receiver == funcDecl.Recv[1]
             typeName ==
                IF receiver.Type.node = "StarExpr" THEN receiver.Type.X.Name
                ELSE receiver.Type.Name
             methodInfo == NewMethodInfo(v, funcDecl.Name, funcDecl.Type)
         IN IF typeName \in DOMAIN reg.structs
            THEN [reg EXCEPT !.structs[typeName].Methods = Append(@, methodInfo)]
            ELSE [reg EXCEPT !.structs =
                    MapPut(@, typeName,
                           [Name |-> typeName, Fields |-> <<>>,
                            Methods |-> <<methodInfo>>])]

processMethod(v, reg, funcDecl) ==
    IF funcDecl.RecvNil \/ Len(funcDecl.Recv) = 0 THEN reg
    ELSE LET receiver == funcDecl.Recv[1]
             known == receiver.Type.node \in {"StarExpr", "Ident"}
             typeName ==
                IF receiver.Type.node = "StarExpr"
                THEN (IF receiver.Type.X.node = "Ident"
                      THEN receiver.Type.X.Name ELSE <<>>)
                ELSE receiver.Type.Name
         IN IF ~known THEN reg
            ELSE IF typeName \in DOMAIN reg.structs
            THEN [reg EXCEPT !.structs[typeName].Methods =
                    Append(@, NewMethodInfo(v, funcDecl.Name, funcDecl.Type))]
            ELSE reg

RECURSIVE processSpecs(_, _, _)
processSpecs(v, reg, specs) ==
    IF Len(specs) = 0 THEN reg
    ELSE processSpecs(v, processTypeSpec(v, reg, Head(specs)), Tail(specs))

\* The declaration loop of ParseGoFile.
RECURSIVE processDecls(_, _, _)
processDecls(v, reg, decls) ==
    IF Len(decls) = 0 THEN reg
    ELSE LET decl == Head(decls)
             next ==
                IF decl.decl = "GenDecl" /\ decl.Tok = "TYPE"
                THEN processSpecs(v, reg, decl.Specs)
                ELSE IF decl.decl = "FuncDecl" /\ ~decl.RecvNil
                THEN processMethod(v, reg, decl)
                ELSE reg
         IN processDecls(v, next, Tail(decls))

(***************************************************************************)
(* identifyRelations.  Stage 1 (member-based) and stage 2 (structural      *)
(* satisfaction) each range over the struct map; `order` is the order in   *)
(* which that range visits the keys, and iorder[s] the order of the inner  *)
(* range over the interface map for struct s.                              *)
(***************************************************************************)
\* FieldRelations with a fault seeded: the struct branch does not look the type up.
FieldRelationsUnchecked(s, i, structName, field) ==
    <<Relation(structName, TrimPrefix(field.Type, <<"*">>),
               IF field.Name = field.Type THEN "extends"
               ELSE IF HasPrefix(field.Type, <<"*">>) THEN "composition"
               ELSE "aggregation",
               "1")>>
    \o
    (IF field.Type \in DOMAIN i
     THEN <<Relation(structName, field.Type, "implements", "")>>
     ELSE <<>>)

\* Directory variant, the body of the loop over the fields.
FieldRelations(s, i, structName, field) ==
    (IF field.Type \in DOMAIN s
     THEN <<Relation(structName, TrimPrefix(field.Type, <<"*">>),
                     IF field.Name = field.Type THEN "extends"
                     ELSE IF HasPrefix(field.Type, <<"*">>) THEN "composition"
                     ELSE "aggregation",
                     "1")>>
     ELSE <<>>)
    \o
    (IF field.Type \in DOMAIN i
     THEN <<Relation(structName, field.Type, "implements", "")>>
     ELSE <<>>)

\* Single-file variant, the body of the loop over the fields.
FieldRelationsFile(s, i, structName, field) ==
    (IF field.Type \in DOMAIN s
     THEN <<Relation(structName, field.Type,
                     IF field.Name = field.Type THEN "composition"
                     ELSE "aggregation",
                     "1")>>
     ELSE <<>>)
    \o
    (IF HasPrefix(field.Type, <<"[]">>)
     THEN LET baseType == TrimPrefix(field.Type, <<"[]">>)
          IN IF baseType \in DOMAIN s
             THEN <<Relation(structName, baseType, "aggregation", "*")>>
             ELSE <<>>
     ELSE <<>>)

MemberRelations(v, s, i, order) ==
    Flatten([n \in 1..Len(order) |->
        LET structName == order[n]
            fields == s[structName].Fields
        IN Flatten([f \in 1..Len(fields) |->
              IF v = "dir" THEN FieldRelations(s, i, structName, fields[f])
              ELSE FieldRelationsFile(s, i, structName, fields[f])])])

\* The inner loops of stage 2: every method name of the interface is the name
\* of a method of the struct.
implementsInterface(structInfo, interfaceInfo) ==
    \A m \in 1..Len(interfaceInfo.Methods) :
        \E k \in 1..Len(structInfo.Methods) :
            structInfo.Methods[k].Name = interfaceInfo.Methods[m].Name

SatisfactionRelations(s, i, order, iorder) ==
    Flatten([n \in 1..Len(order) |->
        LET structName == order[n]
            inner == iorder[structName]
        IN Flatten([j \in 1..Len(inner) |->
              IF implementsInterface(s[structName], i[inner[j]])
                 /\ Len(i[inner[j]].Methods) > 0
              THEN <<Relation(structName, inner[j], "implements", "")>>
              ELSE <<>>])])

\* Every list stage 1 can append, over the iteration orders of the map.
MemberOutcomes(v, s, i) ==
    {MemberRelations(v, s, i, order) : order \in Orders(DOMAIN s)}

\* Every list stage 2 can append.
SatisfactionOutcomes(s, i) ==
    {SatisfactionRelations(s, i, order, iorder) :
        order \in Orders(DOMAIN s),
        iorder \in [DOMAIN s -> Orders(DOMAIN i)]}

(***************************************************************************)
(* GeneratePlantUML.  The text is the token sequence the strings.Builder   *)
(* holds; sorder and iorder are the orders in which the two map ranges     *)
(* visit the structs and the interfaces.                                   *)
(***************************************************************************)
ParamText(param) ==
    IF param.Name # <<>> THEN param.Name \o <<": ">> \o param.Type
    ELSE param.Type

ParamsText(method) ==
    Join([k \in 1..Len(method.Parameters) |-> ParamText(method.Parameters[k])],
         <<", ">>)

\* Directory variant.
MethodLine(method) ==
    IF method.ReturnType # <<>>
    THEN <<"    +">> \o method.Name \o <<"(">> \o ParamsText(method)
            \o <<"): ">> \o method.ReturnType \o <<"\n">>
    ELSE <<"    +">> \o method.Name \o <<"(">> \o ParamsText(method)
            \o <<")">> \o <<"\n">>

\* Single-file variant.
MethodLineFile(method) ==
    LET returnStr == IF method.ReturnType # <<>>
                     THEN <<": ">> \o method.ReturnType ELSE <<>>
    IN <<"  +">> \o method.Name \o <<"(">> \o ParamsText(method) \o <<")">>
          \o returnStr \o <<"\n">>

MethodLines(v, methods) ==
    Flatten([k \in 1..Len(methods) |->
        IF v = "dir" THEN MethodLine(methods[k]) ELSE MethodLineFile(methods[k])])

\* FieldLine with a fault seeded: embedded fields are shown too.
FieldLineShowsEmbedded(v, field) ==
    <<IF v = "dir" THEN "    +" ELSE "  +">> \o field.Name \o <<": ">>
        \o field.Type \o <<"\n">>

\* The attribute line of one field; embedded fields are not shown.
FieldLine(v, field) ==
    IF field.Name # field.Type
    THEN <<IF v = "dir" THEN "    +" ELSE "  +">> \o field.Name \o <<": ">>
            \o field.Type \o <<"\n">>
    ELSE <<>>

ClassBlock(v, structInfo) ==
    <<"class ">> \o structInfo.Name \o <<" {", "\n">>
    \o Flatten([f \in 1..Len(structInfo.Fields) |->
                    FieldLine(v, structInfo.Fields[f])])
    \o MethodLines(v, structInfo.Methods)
    \o <<"}", "\n", "\n">>

InterfaceBlock(v, interfaceInfo) ==
    <<"interface ">> \o interfaceInfo.Name \o <<" {", "\n">>
    \o MethodLines(v, interfaceInfo.Methods)
    \o <<"}", "\n", "\n">>

\* RelationLine with a fault seeded: the switch has no case for implements.
RelationLineDropsImplements(relation) ==
    CASE relation.Type = "extends" ->
            relation.To \o <<" <|-- ">> \o relation.From \o <<"\n">>
      [] relation.Type = "aggregation" ->
            relation.From \o <<" o-- ">> \o relation.To \o <<"\n">>
      [] relation.Type = "composition" ->
            relation.From \o <<" *-- ">> \o relation.To \o <<"\n">>
      [] OTHER -> <<>>

\* Directory variant, the switch over relation.Type.
RelationLine(relation) ==
    CASE relation.Type = "extends" ->
            relation.To \o <<" <|-- ">> \o relation.From \o <<"\n">>
      [] relation.Type = "implements" ->
            relation.To \o <<" <|.. ">> \o relation.From \o <<"\n">>
      [] relation.Type = "aggregation" ->
            relation.From \o <<" o-- ">> \o relation.To \o <<"\n">>
      [] relation.Type = "composition" ->
            relation.From \o <<" *-- ">> \o relation.To \o <<"\n">>
      [] OTHER -> <<>>

\* Single-file variant, the switch over relation.Type.
RelationLineFile(relation) ==
    CASE relation.Type = "composition" ->
            relation.From \o <<" *-- ">> \o relation.To \o <<"\n">>
      [] relation.Type = "aggregation" ->
            (IF relation.Cardinality = "*"
             THEN relation.From \o <<" o-- \"", relation.Cardinality, "\" ">>
                    \o relation.To \o <<"\n">>
             ELSE relation.From \o <<" o-- ">> \o relation.To \o <<"\n">>)
      [] relation.Type = "implements" ->
            relation.From \o <<" ..|> ">> \o relation.To \o <<"\n">>
      [] OTHER -> <<>>

GeneratePlantUML(v, s, i, r, sorder, iorder) ==
    <<"@startuml", "\n", "\n">>
    \o Flatten([n \in 1..Len(sorder) |-> ClassBlock(v, s[sorder[n]])])
    \o Flatten([n \in 1..Len(iorder) |-> InterfaceBlock(v, i[iorder[n]])])
    \o Flatten([n \in 1..Len(r) |->
          IF v = "dir" THEN RelationLine(r[n]) ELSE RelationLineFile(r[n])])
    \o <<"\n", "@enduml">>

\* Every text GeneratePlantUML can return for one generator state.
RenderOutcomes(v, s, i, r) ==
    {GeneratePlantUML(v, s, i, r, sorder, iorder) :
        sorder \in Orders(DOMAIN s), iorder \in Orders(DOMAIN i)}

(***************************************************************************)
(* Source units.  A unit is what parser.ParseFile returns for one file: an *)
(* error, or the list of its declarations.                                 *)
(***************************************************************************)
Named(n, type) == Field(<< <<n>> >>, type)

Embedded(type) == Field(<<>>, type)

TypeDecl(name, type) == GenDecl("TYPE", <<TypeSpec(name, type)>>)

Method(recvType, name, params, results) ==
    FuncDecl(FALSE, <<Named("r", recvType)>>, name, FuncType(params, results))

Unit(decls) == [Err |-> FALSE, Decls |-> decls]

\* type Engine struct{}
\* type Car struct { Engine *Engine; Spares []Engine; Name string }
UnitCar ==
    Unit(<<TypeDecl("Engine", StructType(<<>>)),
           TypeDecl("Car", StructType(<<
               Named("Engine", StarExpr(Ident("Engine"))),
               Named("Spares", ArrayType(FALSE, Ident("Engine"))),
               Named("Name", Ident("string"))>>))>>)

\* type Engine struct{}
\* type Car struct { Engine; Main Engine; Tags map[string]pkg.Tag }
UnitEmbed ==
    Unit(<<TypeDecl("Engine", StructType(<<>>)),
           TypeDecl("Car", StructType(<<
               Embedded(Ident("Engine")),
               Named("Main", Ident("Engine")),
               Named("Tags", MapType(Ident("string"),
                                     SelectorExpr(Ident("pkg"), "Tag")))>>))>>)

\* type Shape interface { Area() float64 }
\* type Circle struct { R float64; Kind Shape }
\* func (r Circle) Area() float64
UnitShape ==
    Unit(<<TypeDecl("Shape", InterfaceType(<<
               Named("Area", FuncType(<<>>, <<Embedded(Ident("float64"))>>))>>)),
           TypeDecl("Circle", StructType(<<
               Named("R", Ident("float64")),
               Named("Kind", Ident("Shape"))>>)),
           Method(Ident("Circle"), "Area", <<>>,
                  <<Embedded(Ident("float64"))>>)>>)

\* func (r *Circle) Area(scale float64, int) (float64, error)
\* type Circle struct { Car *Car }
\* func helper()
\* var counter int
UnitLate ==
    Unit(<<Method(StarExpr(Ident("Circle")), "Area",
                  <<Named("scale", Ident("float64")), Embedded(Ident("int"))>>,
                  <<Embedded(Ident("float64")), Embedded(Ident("error"))>>),
           TypeDecl("Circle", StructType(<<
               Named("Car", StarExpr(Ident("Car")))>>)),
           FuncDecl(TRUE, <<>>, "helper", FuncType(<<>>, <<>>)),
           GenDecl("VAR", <<>>)>>)

\* type Shape interface{}
\* type Car struct { Kind Shape; Parts [4]Engine }
UnitAny ==
    Unit(<<TypeDecl("Shape", InterfaceType(<<>>)),
           TypeDecl("Car", StructType(<<
               Named("Kind", Ident("Shape")),
               Named("Parts", ArrayType(TRUE, Ident("Engine")))>>))>>)

\* type Engine interface { Start(); fmt.Stringer }
\* type ID int
\* func (r ID) String() string
UnitClash ==
    Unit(<<TypeDecl("Engine", InterfaceType(<<
               Named("Start", FuncType(<<>>, <<>>)),
               Embedded(SelectorExpr(Ident("fmt"), "Stringer"))>>)),
           TypeDecl("ID", Ident("int")),
           Method(Ident("ID"), "String", <<>>,
                  <<Embedded(Ident("string"))>>)>>)

\* A file the parser rejects.
UnitBad == [Err |-> TRUE, Decls |-> <<>>]

Units == {UnitCar, UnitEmbed, UnitShape, UnitLate, UnitAny, UnitClash, UnitBad}

(***************************************************************************)
(* The generator, as GenerateUMLFromDirectory (directory variant) and      *)
(* generateUMLDiagram (single-file variant) drive it: a fresh generator,   *)
(* ParseGoFile on each unit, then GeneratePlantUML.                        *)
(***************************************************************************)
NoFile == [present |-> FALSE, unit |-> UnitBad, mtime |-> 0]

\* The paths under the watched directory, in the lexical order of filepath.Walk.
PathOrder == <<"a.go", "b.go">>

Paths == {PathOrder[k] : k \in 1..Len(PathOrder)}

\* What a pass or a tick reports: the stage that ended it, the file the
\* message names, and whether the stage returned an error to Watch.
Report(kind, file, err) == [kind |-> kind, file |-> file, err |-> err]

NoReport == Report("none", "", FALSE)

WatchIdle ==
    /\ tree = [p \in Paths |-> NoFile]
    /\ edits = 0
    /\ lastModified = EmptyMap
    /\ goFiles = <<>>
    /\ looping = FALSE
    /\ written = <<>>
    /\ writtenFrom = <<>>
    /\ report = NoReport

Init ==
    /\ variant \in {"dir", "file"}
    /\ structs = EmptyMap
    /\ interfaces = EmptyMap
    /\ relations = <<>>
    /\ relStage = <<>>
    /\ nparsed = 0
    /\ unitsParsed = <<>>
    /\ output = <<>>
    /\ pc = "parsing"
    /\ WatchIdle

\* identifyRelations on the registry (s, i): both stages append to relations.
identifyRelations(s, i) ==
    \E member \in MemberOutcomes(variant, s, i),
       satisfaction \in SatisfactionOutcomes(s, i) :
        /\ relations' = relations \o member \o satisfaction
        /\ relStage' = relStage
               \o [k \in 1..Len(member) |-> "member"]
               \o [k \in 1..Len(satisfaction) |-> "satisfaction"]

\* ParseGoFile on a unit the parser accepts.
ParseGoFileOk(u) ==
    LET reg == processDecls(variant,
                   [structs |-> structs, interfaces |-> interfaces], u.Decls)
    IN /\ structs' = reg.structs
       /\ interfaces' = reg.interfaces
       /\ identifyRelations(reg.structs, reg.interfaces)
       /\ nparsed' = nparsed + 1
       /\ unitsParsed' = Append(unitsParsed, u)

\* The single-file program parses exactly one file with each generator.
MayParse ==
    /\ pc = "parsing"
    /\ nparsed < (IF variant = "file" THEN 1 ELSE MaxFiles)

ParseGoFile(u) ==
    /\ MayParse
    /\ ~u.Err
    /\ ParseGoFileOk(u)
    /\ UNCHANGED <<variant, output, pc, watchVars>>

\* The parser rejects the file: ParseGoFile returns the error and the pass ends.
ParseGoFileFails(u) ==
    /\ MayParse
    /\ u.Err
    /\ pc' = "failed"
    /\ UNCHANGED <<variant, genVars, watchVars>>

Render ==
    /\ pc = "parsing"
    /\ variant = "file" => nparsed = 1
    /\ output' \in RenderOutcomes(variant, structs, interfaces, relations)
    /\ pc' = "rendered"
    /\ UNCHANGED <<variant, structs, interfaces, relations, relStage, nparsed,
                   unitsParsed, watchVars>>

Next ==
    \/ \E u \in Units : ParseGoFile(u)
    \/ \E u \in Units : ParseGoFileFails(u)
    \/ Render

Spec == Init /\ [][Next]_vars

(***************************************************************************)
(* Reading the notation text back.                                         *)
(***************************************************************************)
\* The lines of a text: the token runs that the "\n" tokens end, and the run
\* after the last "\n" when it is not empty.
Lines(text) ==
    LET breaks == {k \in 1..Len(text) : text[k] = "\n"}
        break(j) == CHOOSE k \in breaks : Cardinality({b \in breaks : b <= k}) = j
        start(j) == IF j = 1 THEN 1 ELSE break(j - 1) + 1
        rest == IF breaks = {} THEN text
                ELSE SubSeq(text, break(Cardinality(breaks)) + 1, Len(text))
    IN [j \in 1..Cardinality(breaks) |-> SubSeq(text, start(j), break(j) - 1)]
       \o (IF Len(rest) = 0 THEN <<>> ELSE <<rest>>)

HasLine(text, line) == \E k \in 1..Len(Lines(text)) : Lines(text)[k] = line

\* The lines of the block that opens with `header`, up to its closing brace.
BlockLines(text, header) ==
    LET ls == Lines(text)
        opens == {k \in 1..Len(ls) : ls[k] = header}
    IN
    IF opens = {} THEN <<>>
    ELSE LET first == CHOOSE k \in opens : \A j \in opens : k <= j
             closes == {k \in first..Len(ls) : ls[k] = <<"}">>}
             last == CHOOSE k \in closes : \A j \in closes : k <= j
         IN SubSeq(ls, first + 1, last - 1)

IsMethodLine(line) == \E k \in 1..Len(line) : line[k] = "("

ClassHeader(name) == <<"class ">> \o name \o <<" {">>

InterfaceHeader(name) == <<"interface ">> \o name \o <<" {">>

Indent == IF variant = "dir" THEN "    +" ELSE "  +"

HasRelation(from, to, type, card) ==
    \E k \in 1..Len(relations) : relations[k] = Relation(from, to, type, card)

FieldsOf(S) == {structs[S].Fields[f] : f \in 1..Len(structs[S].Fields)}

(***************************************************************************)
(* C1.  A named field of struct S whose type reference is the pointer *T,  *)
(* T a registered struct, gives a relation S -> T of kind composition with *)
(* cardinality "1", and the rendered text holds the line `S *-- T`.        *)
(* The code looks the raw reference "*T" up in the struct map, where no    *)
(* key starts with "*": no relation is emitted.                            *)
(***************************************************************************)
C1_PointerFieldIsComposition ==
    \A S \in DOMAIN structs : \A fld \in FieldsOf(S) :
        ( /\ fld.Name # fld.Type
          /\ HasPrefix(fld.Type, <<"*">>)
          /\ TrimPrefix(fld.Type, <<"*">>) \in DOMAIN structs )
        => /\ HasRelation(S, TrimPrefix(fld.Type, <<"*">>), "composition", "1")
           /\ pc = "rendered" =>
                HasLine(output, S \o <<" *-- ">> \o TrimPrefix(fld.Type, <<"*">>))

(***************************************************************************)
(* C2.  No relation of kind implements points to an interface registered   *)
(* with zero methods.  The field-typed-as-interface branch of the          *)
(* directory variant emits the relation without looking at the methods.    *)
(***************************************************************************)
C2_NoImplementsOfEmptyInterface ==
    \A k \in 1..Len(relations) :
        (relations[k].Type = "implements" /\ relations[k].To \in DOMAIN interfaces)
        => Len(interfaces[relations[k].To].Methods) > 0

(***************************************************************************)
(* C3.  After a complete pass, a struct S that embeds a registered struct  *)
(* T (a field whose name equals its type reference T) has exactly one      *)
(* relation S -> T of kind extends.  ParseGoFile runs identifyRelations    *)
(* over the whole registry after every unit without clearing the list, so  *)
(* a pass over two units holds the relation twice.  (The single-file       *)
(* variant emits kind composition; the formula is about the directory      *)
(* variant, whose kind is extends.)                                        *)
(***************************************************************************)
ExtendsCount(S, T) ==
    Cardinality({k \in 1..Len(relations) :
        /\ relations[k].From = S
        /\ relations[k].To = T
        /\ relations[k].Type = "extends"})

EmbeddedCount(S, T) ==
    Cardinality({f \in 1..Len(structs[S].Fields) :
        structs[S].Fields[f] = FieldInfo(T, T)})

C3_EmbeddingIsOneExtends ==
    (variant = "dir" /\ pc = "rendered") =>
        \A S \in DOMAIN structs : \A T \in DOMAIN structs :
            EmbeddedCount(S, T) = 1 => ExtendsCount(S, T) = 1

(***************************************************************************)
(* C4.  In the class block of every struct S, the attribute lines are      *)
(* exactly the lines `+name: type` of the fields whose name differs from   *)
(* their type reference, one each, in field order; a field whose name      *)
(* equals its type reference has no line.                                  *)
(***************************************************************************)
NamedFields(S) == SelectSeq(structs[S].Fields, LAMBDA fld : fld.Name # fld.Type)

AttributeLines(S) ==
    SelectSeq(BlockLines(output, ClassHeader(S)), LAMBDA line : ~IsMethodLine(line))

C4_AttributeLines ==
    pc = "rendered" =>
        \A S \in DOMAIN structs :
            AttributeLines(S) =
                [f \in 1..Len(NamedFields(S)) |->
                    <<Indent>> \o NamedFields(S)[f].Name \o <<": ">>
                        \o NamedFields(S)[f].Type]

C4_Witness ==
    /\ pc = "rendered"
    /\ \E S \in DOMAIN structs :
        /\ \E fld \in FieldsOf(S) : fld.Name = fld.Type
        /\ Len(NamedFields(S)) >= 2
        /\ Len(AttributeLines(S)) >= 2

(***************************************************************************)
(* C5.  A field of struct S whose type reference is the slice []T, T a     *)
(* registered struct, gives a relation S -> T of kind aggregation with     *)
(* cardinality "*".  Only the single-file variant strips the "[]" prefix;  *)
(* the directory variant looks the raw reference up and emits nothing.     *)
(***************************************************************************)
C5_SliceFieldIsAggregation ==
    \A S \in DOMAIN structs : \A fld \in FieldsOf(S) :
        ( /\ HasPrefix(fld.Type, <<"[]">>)
          /\ TrimPrefix(fld.Type, <<"[]">>) \in DOMAIN structs )
        => HasRelation(S, TrimPrefix(fld.Type, <<"[]">>), "aggregation", "*")

(***************************************************************************)
(* C6.  After a complete pass, for every struct S and every interface I    *)
(* with at least one method, stage 2 has appended S -> I of kind           *)
(* implements if and only if every method name of I is a method name of S  *)
(* in the final registry.  A relation appended after an earlier unit stays *)
(* in the list when a later unit redeclares S or I.                        *)
(***************************************************************************)
MethodNames(info) == {info.Methods[k].Name : k \in 1..Len(info.Methods)}

HasSatisfaction(S, I) ==
    \E k \in 1..Len(relations) :
        /\ relStage[k] = "satisfaction"
        /\ relations[k].From = S
        /\ relations[k].To = I
        /\ relations[k].Type = "implements"

C6_SatisfactionIffAllNames ==
    pc = "rendered" =>
        \A S \in DOMAIN structs : \A I \in DOMAIN interfaces :
            MethodNames(interfaces[I]) # {} =>
                (HasSatisfaction(S, I)
                    <=> MethodNames(interfaces[I]) \subseteq MethodNames(structs[S]))

(***************************************************************************)
(* C9.  Both endpoints of every relation are keys of the struct map or of  *)
(* the interface map: a field whose type is not registered gives no        *)
(* relation.                                                               *)
(***************************************************************************)
Registered == (DOMAIN structs) \cup (DOMAIN interfaces)

C9_EndpointsRegistered ==
    \A k \in 1..Len(relations) :
        relations[k].From \in Registered /\ relations[k].To \in Registered

C9_Witness ==
    /\ nparsed = MaxFiles
    /\ Len(relations) > 0
    /\ \E S \in DOMAIN structs : \E fld \in FieldsOf(S) :
          /\ fld.Type \notin Registered
          /\ TrimPrefix(fld.Type, <<"*">>) \notin Registered

(***************************************************************************)
(* C10.  No type name is a key of both the struct map and the interface    *)
(* map, and the text never holds a class block and an interface block of   *)
(* one name.  processTypeSpec writes one map without looking at the other. *)
(***************************************************************************)
C10_StructXorInterface ==
    /\ (DOMAIN structs) \cap (DOMAIN interfaces) = {}
    /\ pc = "rendered" =>
         \A n \in Registered :
            ~(HasLine(output, ClassHeader(n)) /\ HasLine(output, InterfaceHeader(n)))

(***************************************************************************)
(* The directory watcher: FileWatcher.Watch, with the file system as its   *)
(* environment.  The file system changes while Watch sleeps between two    *)
(* ticks; a pass reads the tree as the tick found it.                      *)
(***************************************************************************)
\* The units the watched files hold.
WatchUnits == {UnitCar, UnitShape, UnitBad}

Files ==
    {NoFile} \cup
    {[present |-> TRUE, unit |-> u, mtime |-> t] : u \in WatchUnits, t \in 0..MaxClock}

\* The file the single-file watcher is started on.
FilePath == PathOrder[1]

\* findGoFiles: the paths of the files present, in walk order.
findGoFiles(t) == SelectSeq(PathOrder, LAMBDA p : t[p].present)

Elems(seq) == {seq[k] : k \in 1..Len(seq)}

\* The units the current pass has read so far.
UnitsRead == [k \in 1..nparsed |-> tree[goFiles[k]].unit]

\* NewUMLGenerator with a fault seeded: the relation list of the last pass is kept.
GeneratorKeepsRelations ==
    [structs |-> EmptyMap, interfaces |-> EmptyMap, relations |-> relations]

\* NewUMLGenerator: the generator a pass works on.
NewUMLGenerator ==
    [structs |-> EmptyMap, interfaces |-> EmptyMap, relations |-> <<>>]

\* NewFileWatcher.  The directory watcher starts with an empty lastModified
\* map; the single-file watcher is only built when os.Stat finds its file,
\* and starts with that file's modification time.
WatchInit ==
    /\ variant \in {"dir", "file"}
    /\ structs = EmptyMap
    /\ interfaces = EmptyMap
    /\ relations = <<>>
    /\ relStage = <<>>
    /\ nparsed = 0
    /\ unitsParsed = <<>>
    /\ output = <<>>
    /\ pc = "start"
    /\ tree \in [Paths -> Files]
    /\ variant = "file" =>
          /\ tree[FilePath].present
          /\ \A p \in Paths \ {FilePath} : tree[p] = NoFile
    /\ edits = 0
    /\ lastModified = IF variant = "file"
                      THEN [p \in {FilePath} |-> tree[p].mtime]
                      ELSE EmptyMap
    /\ goFiles = IF variant = "file" THEN <<FilePath>> ELSE <<>>
    /\ looping = FALSE
    /\ written = <<>>
    /\ writtenFrom = <<>>
    /\ report = NoReport

\* Where Watch goes when the build of a pass returns an error.  The directory
\* watcher returns from Watch when its initial build fails and goes on with
\* the next tick when a build of the loop fails; the single-file watcher
\* goes on to its loop in both cases.
AfterError == IF looping \/ variant = "file" THEN "sleep" ELSE "exited"

\* The file system: a file is created or rewritten, with any timestamp.
EnvWrite(p, f) ==
    /\ pc = "sleep"
    /\ edits < MaxEdits
    /\ variant = "file" => p = FilePath
    /\ f.present
    /\ tree[p] # f
    /\ tree' = [tree EXCEPT ![p] = f]
    /\ edits' = edits + 1
    /\ UNCHANGED <<variant, genVars, pc, lastModified, goFiles, looping,
                   written, writtenFrom, report>>

\* The file system: a file is deleted.
EnvDelete(p) ==
    /\ pc = "sleep"
    /\ edits < MaxEdits
    /\ variant = "file" => p = FilePath
    /\ tree[p].present
    /\ tree' = [tree EXCEPT ![p] = NoFile]
    /\ edits' = edits + 1
    /\ UNCHANGED <<variant, genVars, pc, lastModified, goFiles, looping,
                   written, writtenFrom, report>>

\* Watch, before the loop.  The directory watcher enumerates the directory
\* and fills lastModified; the single-file watcher goes straight to its
\* initial generateUMLDiagram.
WatchStart ==
    /\ pc = "start"
    /\ IF variant = "dir"
       THEN /\ goFiles' = findGoFiles(tree)
            /\ lastModified' = [p \in Elems(findGoFiles(tree)) |-> tree[p].mtime]
       ELSE UNCHANGED <<goFiles, lastModified>>
    /\ pc' = "build"
    /\ UNCHANGED <<variant, genVars, tree, edits, looping, written, writtenFrom,
                   report>>

\* Directory watcher, before the loop: the first enumeration fails and Watch
\* returns.
WatchStartFails ==
    /\ pc = "start"
    /\ variant = "dir"
    /\ pc' = "exited"
    /\ report' = Report("findGoFiles", "", TRUE)
    /\ UNCHANGED <<variant, genVars, tree, edits, lastModified, goFiles, looping,
                   written, writtenFrom>>

\* ScanModified with a fault seeded: the time of a known file is not recorded
\* when the tick detects the change.
ScanModifiedKeepsOld(t, last) ==
    [p \in Elems(findGoFiles(t)) |->
        IF p \in DOMAIN last THEN last[p] ELSE t[p].mtime]

\* The timestamps the tick leaves in lastModified, and whether it saw a change.
ScanModified(t, last) ==
    [p \in Elems(findGoFiles(t)) |->
        IF p \in DOMAIN last /\ ~(t[p].mtime > last[p]) THEN last[p]
        ELSE t[p].mtime]

\* ScanChanged with a fault seeded: the loop over lastModified is left out,
\* so a removed file is not a change.
ScanChangedIgnoresRemovals(t, last) ==
    \E p \in Elems(findGoFiles(t)) :
        p \notin DOMAIN last \/ t[p].mtime > last[p]

ScanChanged(t, last) ==
    \/ \E p \in Elems(findGoFiles(t)) :
          p \notin DOMAIN last \/ t[p].mtime > last[p]
    \/ \E p \in DOMAIN last : p \notin Elems(findGoFiles(t))

\* One tick of the directory watcher's loop: enumerate, compare, and start a
\* pass on a change.
Tick ==
    /\ pc = "sleep"
    /\ variant = "dir"
    /\ goFiles' = findGoFiles(tree)
    /\ lastModified' = ScanModified(tree, lastModified)
    /\ pc' = IF ScanChanged(tree, lastModified) THEN "build" ELSE "sleep"
    /\ UNCHANGED <<variant, genVars, tree, edits, looping, written, writtenFrom,
                   report>>

\* One tick of the directory watcher's loop on which the enumeration fails:
\* the error is printed and the loop continues.
TickFails ==
    /\ pc = "sleep"
    /\ variant = "dir"
    /\ report' = Report("findGoFiles", "", TRUE)
    /\ UNCHANGED <<variant, genVars, pc, tree, edits, lastModified, goFiles,
                   looping, written, writtenFrom>>

\* One tick of the single-file watcher's loop: os.Stat, compare the
\* modification time, and on a later one record it and go to the settle delay.
FileTick ==
    /\ pc = "sleep"
    /\ variant = "file"
    /\ tree[FilePath].present
    /\ IF tree[FilePath].mtime > lastModified[FilePath]
       THEN /\ lastModified' = [lastModified EXCEPT ![FilePath] = tree[FilePath].mtime]
            /\ pc' = "settle"
       ELSE UNCHANGED <<lastModified, pc>>
    /\ UNCHANGED <<variant, genVars, tree, edits, goFiles, looping, written,
                   writtenFrom, report>>

\* One tick of the single-file watcher's loop on which os.Stat fails (the
\* file is gone, or cannot be examined): the error is printed and the loop
\* continues.
FileTickFails ==
    /\ pc = "sleep"
    /\ variant = "file"
    /\ report' = Report("Stat", FilePath, TRUE)
    /\ UNCHANGED <<variant, genVars, pc, tree, edits, lastModified, goFiles,
                   looping, written, writtenFrom>>

\* Single-file watcher: time.Sleep(100 * time.Millisecond) between the
\* detection of a change and generateUMLDiagram.
Settle ==
    /\ pc = "settle"
    /\ pc' = "build"
    /\ UNCHANGED <<variant, genVars, watchVars>>

\* NewUMLGenerator and, in the directory watcher, the head of
\* GenerateUMLFromDirectory: Reset and the enumeration of the files to parse.
Build ==
    /\ pc = "build"
    /\ structs' = NewUMLGenerator.structs
    /\ interfaces' = NewUMLGenerator.interfaces
    /\ relations' = NewUMLGenerator.relations
    /\ relStage' = <<>>
    /\ nparsed' = 0
    /\ unitsParsed' = <<>>
    /\ goFiles' = IF variant = "dir" THEN findGoFiles(tree) ELSE <<FilePath>>
    /\ report' = NoReport
    /\ pc' = "parse"
    /\ UNCHANGED <<variant, output, tree, edits, lastModified, looping,
                   written, writtenFrom>>

\* GenerateUMLFromDirectory fails to enumerate the directory.
BuildFails ==
    /\ pc = "build"
    /\ variant = "dir"
    /\ pc' = AfterError
    /\ report' = Report("findGoFiles", "", TRUE)
    /\ UNCHANGED <<variant, genVars, tree, edits, lastModified, goFiles, looping,
                   written, writtenFrom>>

\* WatchParse with a fault seeded: a file that does not parse is skipped and
\* the pass goes on with what it has.
WatchParseSkipsBadFile ==
    /\ pc = "parse"
    /\ nparsed < Len(goFiles)
    /\ LET u == tree[goFiles[nparsed + 1]].unit
       IN IF u.Err
          THEN /\ nparsed' = nparsed + 1
               /\ UNCHANGED <<structs, interfaces, relations, relStage,
                              unitsParsed>>
          ELSE ParseGoFileOk(u)
    /\ UNCHANGED <<variant, output, pc, watchVars>>

\* The loop of GenerateUMLFromDirectory, or the one call of
\* generateUMLDiagram: ParseGoFile on the next file.  On a parse error
\* ParseGoFile returns an error that names the file, and the pass ends.
WatchParse ==
    /\ pc = "parse"
    /\ nparsed < Len(goFiles)
    /\ LET p == goFiles[nparsed + 1]
           u == tree[p].unit
       IN IF u.Err
          THEN /\ pc' = AfterError
               /\ looping' = (AfterError = "sleep")
               /\ report' = Report("ParseGoFile", p, TRUE)
               /\ UNCHANGED <<structs, interfaces, relations, relStage, nparsed,
                              unitsParsed>>
          ELSE /\ ParseGoFileOk(u)
               /\ pc' = pc
               /\ UNCHANGED <<looping, report>>
    /\ UNCHANGED <<variant, output, tree, edits, lastModified, goFiles, written,
                   writtenFrom>>

\* GenerateUMLDiagram / generateUMLDiagram up to os.WriteFile: the text is
\* rendered and written.
WriteNotation ==
    /\ pc = "parse"
    /\ nparsed = Len(goFiles)
    /\ output' \in RenderOutcomes(variant, structs, interfaces, relations)
    /\ written' = output'
    /\ writtenFrom' = UnitsRead
    /\ pc' = "convert"
    /\ UNCHANGED <<variant, structs, interfaces, relations, relStage, nparsed,
                   unitsParsed, tree, edits, lastModified, goFiles, looping,
                   report>>

\* os.MkdirAll or os.WriteFile fails; the rendered text is dropped and the
\* error is printed.
WriteNotationFails ==
    /\ pc = "parse"
    /\ nparsed = Len(goFiles)
    /\ pc' = "sleep"
    /\ looping' = TRUE
    /\ report' = Report("WriteFile", "", TRUE)
    /\ UNCHANGED <<variant, genVars, tree, edits, lastModified, goFiles,
                   written, writtenFrom>>

\* What the external renderer does once the notation file is written:
\* plantuml.jar is absent, or the renderer runs and fails, or it succeeds.
RendererOutcomes == {"renderer absent", "renderer failed", "rendered"}

\* RendererError with a fault seeded: a missing plantuml.jar is an error too.
RendererErrorWhenAbsent(v, outcome) == outcome # "rendered"

\* Whether the pass returns an error to Watch for a renderer outcome.  In the
\* directory watcher GenerateUMLDiagram returns nil when plantuml.jar is
\* absent and the error of java when it fails; generateUMLDiagram of the
\* single-file watcher prints a warning and returns nil.
RendererError(v, outcome) == v = "dir" /\ outcome = "renderer failed"

\* The pass after the write: the renderer is consulted, and Watch goes on to
\* the next tick whatever it did.
Convert ==
    /\ pc = "convert"
    /\ \E outcome \in RendererOutcomes :
          report' = Report(outcome, "", RendererError(variant, outcome))
    /\ pc' = "sleep"
    /\ looping' = TRUE
    /\ UNCHANGED <<variant, genVars, tree, edits, lastModified, goFiles,
                   written, writtenFrom>>

WatchNext ==
    \/ \E p \in Paths : \E f \in Files : EnvWrite(p, f)
    \/ \E p \in Paths : EnvDelete(p)
    \/ WatchStart
    \/ WatchStartFails
    \/ Tick
    \/ TickFails
    \/ FileTick
    \/ FileTickFails
    \/ Settle
    \/ Build
    \/ BuildFails
    \/ WatchParse
    \/ WriteNotation
    \/ WriteNotationFails
    \/ Convert

WatchSpec == WatchInit /\ [][WatchNext]_vars

(***************************************************************************)
(* C7.  Two passes that start from an empty registry and read the same     *)
(* units write the same text.  GeneratePlantUML ranges over the struct map *)
(* and the interface map, and identifyRelations over the struct map, in    *)
(* the order the Go runtime picks: with two structs in the registry a      *)
(* second pass over untouched content can write them in the other order.   *)
(***************************************************************************)
C7_SameSourceSameText ==
    [][ ( /\ pc = "parse"
          /\ pc' = "convert"
          /\ written # <<>>
          /\ writtenFrom = UnitsRead )
        => written' = written ]_vars

(***************************************************************************)
(* C8.  Every pass of the watch loop starts from an empty registry and an  *)
(* empty relation list, and the text a pass writes holds no class or       *)
(* interface block and no relation line for a type that no file of the     *)
(* tree declares: what a deleted unit declared is gone from the next text. *)
(***************************************************************************)
\* The struct and interface names the declarations of a unit register.
DeclaredBy(u) ==
    LET typeDecls == {d \in 1..Len(u.Decls) :
                         u.Decls[d].decl = "GenDecl" /\ u.Decls[d].Tok = "TYPE"}
        registers(spec) == spec.Type.node \in {"StructType", "InterfaceType"}
    IN UNION {{u.Decls[d].Specs[k].Name :
                  k \in {k \in 1..Len(u.Decls[d].Specs) :
                            registers(u.Decls[d].Specs[k])}} :
              d \in typeDecls}

DeclaredIn(t) ==
    UNION {DeclaredBy(t[p].unit) : p \in {q \in Paths : t[q].present}}

Arrows == {" <|-- ", " <|.. ", " o-- ", " *-- ", " ..|> "}

\* The type names a text shows: in block headers and at the ends of relation
\* lines.
TextTypes(text) ==
    LET ls == Lines(text)
        headers == {k \in 1..Len(ls) :
                       Len(ls[k]) >= 3 /\ ls[k][1] \in {"class ", "interface "}}
        arrows == {k \in 1..Len(ls) : \E j \in 1..Len(ls[k]) : ls[k][j] \in Arrows}
        at(k) == CHOOSE j \in 1..Len(ls[k]) : ls[k][j] \in Arrows
    IN {SubSeq(ls[k], 2, Len(ls[k]) - 1) : k \in headers}
       \cup {SubSeq(ls[k], 1, at(k) - 1) : k \in arrows}
       \cup {SubSeq(ls[k], at(k) + 1, Len(ls[k])) : k \in arrows}

C8_NoStaleEntries ==
    [][ /\ (pc = "build" /\ pc' = "parse") =>
              structs' = EmptyMap /\ interfaces' = EmptyMap /\ relations' = <<>>
        /\ (pc = "parse" /\ pc' = "convert") =>
              TextTypes(written') \subseteq DeclaredIn(tree) ]_vars

\* A pass of the loop has rebuilt the registry and is about to write; the old
\* text still shows a type whose unit has been deleted since.
C8_Witness ==
    /\ looping
    /\ pc = "parse"
    /\ nparsed = Len(goFiles)
    /\ nparsed >= 1
    /\ \E T \in TextTypes(written) :
          T \notin DeclaredIn(tree) /\ T \notin Registered


(***************************************************************************)
(* C11.  Once Watch has been entered, no failure of a stage makes Watch    *)
(* return: whenever a tick or a pass has reported an error, Watch is       *)
(* still running (it sleeps until the next tick or works on a pass).  The  *)
(* directory watcher returns from Watch when the enumeration before the    *)
(* loop fails, and when the initial GenerateUMLFromDirectory fails (a      *)
(* file of the directory does not parse).                                  *)
(***************************************************************************)
C11_FailureNeverEndsWatch == report.err => pc # "exited"


(***************************************************************************)
(* C12.  When a unit of a pass does not parse, ParseGoFile returns an      *)
(* error that names the file and the pass ends at that unit: the step      *)
(* reports the parse error with the path of the file, leaves the pass,     *)
(* and changes neither the rendered text nor the notation file.  A step    *)
(* that renders or writes is only taken by a pass in which every file of   *)
(* the enumeration was parsed, so a registry built from the units before   *)
(* a failure is never rendered.                                            *)
(***************************************************************************)
\* The next file of the pass does not parse.
NextUnitFails ==
    /\ pc = "parse"
    /\ nparsed < Len(goFiles)
    /\ tree[goFiles[nparsed + 1]].unit.Err

C12_ParseFailureAbortsPass ==
    [][ /\ NextUnitFails =>
              /\ report' = Report("ParseGoFile", goFiles[nparsed + 1], TRUE)
              /\ pc' \in {"sleep", "exited"}
              /\ output' = output
              /\ written' = written
              /\ writtenFrom' = writtenFrom
        /\ (output' # output \/ written' # written \/ pc' = "convert") =>
              /\ nparsed = Len(goFiles)
              /\ \A k \in 1..Len(goFiles) : ~tree[goFiles[k]].unit.Err ]_vars

\* A pass of the loop parsed its first file, failed on the second and ended;
\* the notation file is still the one an earlier pass wrote.
C12_Witness ==
    /\ pc = "sleep"
    /\ report.kind = "ParseGoFile"
    /\ nparsed >= 1
    /\ structs # EmptyMap
    /\ written # <<>>
    /\ writtenFrom # UnitsRead


(***************************************************************************)
(* C13.  The renderer is consulted only by a pass that has just written    *)
(* the notation file: the step that reaches the renderer is the step that  *)
(* writes the text this pass rendered from the units it read.  Whatever    *)
(* the renderer does, the step after it leaves the notation file as        *)
(* written and returns to the loop; when the renderer is absent that step  *)
(* reports no error.                                                       *)
(***************************************************************************)
C13_WriteThenRender ==
    [][ /\ (pc # "convert" /\ pc' = "convert") =>
              /\ pc = "parse"
              /\ written' = output'
              /\ writtenFrom' = UnitsRead
        /\ pc = "convert" =>
              /\ pc' = "sleep"
              /\ written' = written
              /\ report'.kind \in RendererOutcomes
              /\ report'.kind = "renderer absent" => ~report'.err ]_vars

\* The renderer failed in a pass: the error was reported, the notation file
\* of the pass is in place and Watch sleeps in its loop until the next tick.
C13_Witness ==
    /\ pc = "sleep"
    /\ looping
    /\ report = Report("renderer failed", "", TRUE)
    /\ written # <<>>
    /\ written = output
    /\ writtenFrom = UnitsRead


(***************************************************************************)
(* C14.  At the end of a pass the relation list is what one run of         *)
(* identifyRelations on the final registry appends to an empty list:       *)
(* the member relations of the final registry followed by its              *)
(* satisfaction relations, for some iteration order of the maps.           *)
(* ParseGoFile calls identifyRelations at the end of every file, on the    *)
(* registry as it is then, and appends to the list of the files before:    *)
(* after two files the relations of the first file are in the list twice.  *)
(***************************************************************************)
\* The lists one run of identifyRelations on (s, i) appends to an empty list.
InferredOnce(v, s, i) ==
    {member \o satisfaction :
        member \in MemberOutcomes(v, s, i),
        satisfaction \in SatisfactionOutcomes(s, i)}

C14_InferenceRunsOnce ==
    pc = "rendered" => relations \in InferredOnce(variant, structs, interfaces)


(***************************************************************************)
(* C15.  A tick whose enumeration succeeds starts a rebuild exactly when   *)
(* the set of files it finds differs from the set it knew (a file was      *)
(* added or removed) or a file it knew has a later modification time       *)
(* than the one recorded; a tick that finds no change leaves the           *)
(* generator and the notation file alone and sleeps again.                 *)
(***************************************************************************)
\* The files the tick finds are not the files the watcher knew.
UnitSetDiffers == Elems(findGoFiles(tree)) # DOMAIN lastModified

\* A known file has a modification time later than the recorded one.
SomeUnitModified ==
    \E p \in Elems(findGoFiles(tree)) \cap DOMAIN lastModified :
        tree[p].mtime > lastModified[p]

C16_MembersBeforeSatisfaction ==
    pc = "rendered" =>
        \A j, k \in 1..Len(relations) :
            (relStage[j] = "member" /\ relStage[k] = "satisfaction") => j < k


(***************************************************************************)
(* C17.  A method is appended to the struct named by the base name of its  *)
(* receiver (a leading * stripped) when that struct is registered at the   *)
(* moment the declaration is visited, and changes nothing otherwise.  So   *)
(* in every state the registered structs are exactly the names declared    *)
(* as struct types, and the methods of each are, in visiting order, the    *)
(* methods with that receiver visited after the latest declaration of the  *)
(* struct: a method visited before its owner was declared, in the same     *)
(* file or in an earlier one, is not in the registry.                      *)
(***************************************************************************)
\* The base name of the receiver of a method declaration.
ReceiverBase(funcDecl) ==
    TrimPrefix(TypeString(variant, funcDecl.Recv[1].Type), <<"*">>)

\* What ParseGoFile visits in one declaration: the type specifications of a
\* type declaration, or the method of a function declaration with a receiver.
DeclVisits(decl) ==
    IF decl.decl = "GenDecl"
    THEN IF decl.Tok = "TYPE"
         THEN [k \in 1..Len(decl.Specs) |->
                  [visit |-> "type", Owner |-> decl.Specs[k].Name,
                   Struct |-> decl.Specs[k].Type.node = "StructType",
                   Method |-> <<>>]]
         ELSE <<>>
    ELSE IF ~decl.RecvNil /\ Len(decl.Recv) > 0
    THEN <<[visit |-> "method", Owner |-> ReceiverBase(decl),
            Struct |-> FALSE, Method |-> decl.Name]>>
    ELSE <<>>

\* Everything visited on this generator so far, in order.
Visits ==
    Flatten([k \in 1..Len(unitsParsed) |->
        Flatten([d \in 1..Len(unitsParsed[k].Decls) |->
            DeclVisits(unitsParsed[k].Decls[d])])])

StructVisits(n) ==
    {k \in 1..Len(Visits) :
        Visits[k].visit = "type" /\ Visits[k].Struct /\ Visits[k].Owner = n}

\* The names of the methods with receiver n visited after the latest
\* declaration of struct n.
MethodsAfterOwner(n) ==
    LET last == CHOOSE k \in StructVisits(n) : \A j \in StructVisits(n) : j <= k
        later == SelectSeq(SubSeq(Visits, last + 1, Len(Visits)),
                           LAMBDA x : x.visit = "method" /\ x.Owner = n)
    IN [k \in 1..Len(later) |-> later[k].Method]

C17_MethodNeedsRegisteredOwner ==
    /\ DOMAIN structs = {Visits[k].Owner :
                            k \in {j \in 1..Len(Visits) :
                                      Visits[j].visit = "type" /\ Visits[j].Struct}}
    /\ \A n \in DOMAIN structs :
          [k \in 1..Len(structs[n].Methods) |-> structs[n].Methods[k].Name]
             = MethodsAfterOwner(n)

\* The unit that declares the method Area of Circle before the type Circle
\* was parsed after a unit that gave Circle a method: the final record of
\* Circle has no method.
C17_Witness ==
    /\ pc = "rendered"
    /\ unitsParsed = <<UnitShape, UnitLate>>
    /\ <<"Circle">> \in DOMAIN structs
    /\ structs[<<"Circle">>].Methods = <<>>


(***************************************************************************)
(* C18.  When an interface I is registered and a struct S has a field      *)
(* whose type reference is exactly I, the relation list holds S -> I of    *)
(* kind implements with cardinality "", whatever the methods of S are.     *)
(* The directory variant has this branch in its field loop; the            *)
(* single-file variant's field loop only looks the type up in the struct   *)
(* map, so there the relation exists only when stage 2 finds the methods.  *)
(***************************************************************************)
C18_InterfaceFieldIsImplements ==
    \A S \in DOMAIN structs :
        \A k \in 1..Len(structs[S].Fields) :
            structs[S].Fields[k].Type \in DOMAIN interfaces =>
                \E j \in 1..Len(relations) :
                    relations[j] = Relation(S, structs[S].Fields[k].Type,
                                            "implements", "")


(***************************************************************************)
(* C19.  Every relation in the list has a kind among extends, implements,  *)
(* aggregation and composition and a cardinality among "", "1" and "*",    *)
(* and the text GeneratePlantUML returns has exactly one relation line     *)
(* for every relation of the list: as many relation lines as relations,    *)
(* the k-th line joining the two endpoints of the k-th relation.           *)
(***************************************************************************)
RelationKinds == {"extends", "implements", "aggregation", "composition"}

Cardinalities == {"", "1", "*"}

\* The lines of a text that hold an arrow, in order.
RelationLinesOf(text) ==
    SelectSeq(Lines(text),
              LAMBDA l : \E j \in 1..Len(l) : l[j] \in Arrows \cup {" o-- \""})

\* The line starts with one endpoint of the relation and ends with the other.
JoinsEndpoints(line, relation) ==
    \E a, b \in {relation.From, relation.To} :
        /\ {a, b} = {relation.From, relation.To}
        /\ Len(line) > Len(a) + Len(b)
        /\ SubSeq(line, 1, Len(a)) = a
        /\ SubSeq(line, Len(line) - Len(b) + 1, Len(line)) = b

C19_KindsAndLines ==
    /\ \A k \in 1..Len(relations) :
          /\ relations[k].Type \in RelationKinds
          /\ relations[k].Cardinality \in Cardinalities
    /\ pc = "rendered" =>
          /\ Len(RelationLinesOf(output)) = Len(relations)
          /\ \A k \in 1..Len(relations) :
                JoinsEndpoints(RelationLinesOf(output)[k], relations[k])

\* A rendered text for a list with three kinds of relation.
C19_Witness ==
    /\ pc = "rendered"
    /\ Cardinality({relations[k].Type : k \in 1..Len(relations)}) >= 3
    /\ \E k \in 1..Len(relations) : relations[k].Cardinality = ""
    /\ \E k \in 1..Len(relations) : relations[k].Cardinality = "1"


(***************************************************************************)
(* C20.  A pass that a tick starts because it detected a change begins     *)
(* with the settle delay: the build, which reads the files, is entered     *)
(* from the settle step (or, for the initial run, from the start of        *)
(* Watch), never straight from the tick.  The single-file watcher sleeps   *)
(* 100 ms between the detection and generateUMLDiagram; the directory      *)
(* watcher calls GenerateUMLFromDirectory right after the detection.       *)
(***************************************************************************)
C20_SettleBeforeRead ==
    [][ (pc # "build" /\ pc' = "build") => pc \in {"start", "settle"} ]_vars


(***************************************************************************)
(* C21.  When a struct name is declared again on the same generator, the   *)
(* later declaration replaces the record: after every ParseGoFile the      *)
(* record of each struct has the fields of the latest declaration of its   *)
(* name and the methods visited after that declaration, the relations      *)
(* appended before the call are still at the head of the relation list,    *)
(* and the call returns no error.                                          *)
(***************************************************************************)
\* The type specifications visited on this generator so far, in order.
TypeVisits ==
    Flatten([k \in 1..Len(unitsParsed) |->
        Flatten([d \in 1..Len(unitsParsed[k].Decls) |->
            LET decl == unitsParsed[k].Decls[d]
            IN IF decl.decl = "GenDecl" /\ decl.Tok = "TYPE"
               THEN decl.Specs ELSE <<>>])])

StructDeclarations(n) ==
    {k \in 1..Len(TypeVisits) :
        TypeVisits[k].Type.node = "StructType" /\ TypeVisits[k].Name = n}

\* The fields of the latest declaration of struct n.
LatestFields(n) ==
    LET last == CHOOSE k \in StructDeclarations(n) :
                    \A j \in StructDeclarations(n) : j <= k
    IN StructFields(variant, TypeVisits[last].Type.Fields)

C21_LaterDeclarationReplaces ==
    [][ nparsed' = nparsed + 1 =>
          /\ \A n \in DOMAIN structs' :
                /\ structs'[n].Fields = LatestFields(n)'
                /\ [k \in 1..Len(structs'[n].Methods) |->
                       structs'[n].Methods[k].Name] = MethodsAfterOwner(n)'
          /\ Len(relations') >= Len(relations)
          /\ SubSeq(relations', 1, Len(relations)) = relations
          /\ pc' = pc ]_vars

\* Car was declared with an embedded Engine and then again with a pointer
\* field: the record has the fields of the second declaration, and the
\* extends relation of the first is still in the list.
C21_Witness ==
    /\ unitsParsed = <<UnitEmbed, UnitCar>>
    /\ Cardinality(StructDeclarations(<<"Car">>)) = 2
    /\ structs[<<"Car">>].Fields[1] = FieldInfo(<<"Engine">>, <<"*", "Engine">>)
    /\ HasRelation(<<"Car">>, <<"Engine">>, "extends", "1")
    /\ pc = "rendered"


(***************************************************************************)
(* C22.  The watcher records the modification times when the tick detects  *)
(* the change; the pass that follows does not touch them.  So when a pass  *)
(* ends in an error before it wrote (enumeration, parse or write error),   *)
(* the recorded times are already those of the tree: the notation file is  *)
(* still the one of the last pass that wrote, and a tick on the unchanged  *)
(* tree finds no change and starts no pass.                                *)
(***************************************************************************)
\* What a tick compares: the tree differs from what lastModified records.
ChangePending == UnitSetDiffers \/ SomeUnitModified

C22_FailedPassIsNotRetried ==
    [][ /\ pc \notin {"start", "sleep"} => lastModified' = lastModified
        /\ (pc = "sleep" /\ pc' \in {"build", "settle"}) => ~ChangePending'
        /\ (pc \in {"build", "parse"} /\ pc' = "sleep") =>
              /\ report'.err
              /\ ~ChangePending'
              /\ written' = written
              /\ writtenFrom' = writtenFrom
        /\ (pc = "sleep" /\ tree' = tree /\ ~ChangePending) =>
              /\ pc' = "sleep"
              /\ written' = written ]_vars

\* A pass of the loop failed on a file that does not parse: the notation
\* file is the one written from the tree as it was before, and no change is
\* pending for the next tick.
C22_Witness ==
    /\ pc = "sleep"
    /\ looping
    /\ report.kind = "ParseGoFile"
    /\ ~ChangePending
    /\ written # <<>>
    /\ writtenFrom # [k \in 1..Len(findGoFiles(tree)) |->
                          tree[findGoFiles(tree)[k]].unit]


(***************************************************************************)
(* The watch loop under fair scheduling: the sleep of a tick ends, and a   *)
(* pass that can go on does go on.  The steps that fail and the steps of   *)
(* the file system are not forced.                                         *)
(***************************************************************************)
Progress ==
    \/ WatchStart
    \/ Tick
    \/ FileTick
    \/ Settle
    \/ Build
    \/ WatchParse
    \/ WriteNotation
    \/ Convert

WatchLiveSpec == WatchSpec /\ WF_vars(Progress)

(***************************************************************************)
(* C23.  Directory watcher, fair ticking.  If from some point on the tree  *)
(* does not change, every file of it parses, and no enumeration and no     *)
(* write fails, then from some point on the notation file is the text a    *)
(* pass wrote from the files the tree holds now.  A pass that failed       *)
(* before that point is not run again (the tick that started it recorded   *)
(* the modification times), and a failure of the initial run ends Watch,   *)
(* so the notation file can stay out of date for ever.                     *)
(***************************************************************************)
\* The units of the files the tree holds now, in enumeration order.
CurrentUnits ==
    [k \in 1..Len(findGoFiles(tree)) |-> tree[findGoFiles(tree)[k]].unit]

\* The notation file was written by a pass that read the current units.
NotationCurrent == written # <<>> /\ writtenFrom = CurrentUnits

EveryUnitParses == \A p \in Paths : tree[p].present => ~tree[p].unit.Err

\* A step of the file system, or a step on which an enumeration or a write
\* fails.
Disturbance ==
    \/ tree' # tree
    \/ WatchStartFails
    \/ TickFails
    \/ BuildFails
    \/ WriteNotationFails

C23_EventuallyCurrent ==
    (variant = "dir" /\ <>[]EveryUnitParses /\ <>[][~Disturbance]_vars)
        => <>[]NotationCurrent

====
